---- MODULE Spec2Model ----
(***************************************************************************)
(* A model of the locallyvalid front end:                                  *)
(*   - WriteSignalExt::double_bind (src/src/leptos_ext.rs), the two-way    *)
(*     binding of a parent signal and a derived child signal, run by the   *)
(*     synchronous effect scheduler of the reactive runtime;               *)
(*   - Visibility::new / fraction_visible (src/src/visibility.rs), the     *)
(*     classification of an interval against the window [0, w);            *)
(*   - the scroll handlers of graph_upstream / graph_downstream with       *)
(*     first_visible_element and restore_position (src/src/main.rs);       *)
(*   - ReadSignalExt::map_dedup, map_window, keep_if, skip_if              *)
(*     (src/src/leptos_ext.rs);                                            *)
(*   - WriteSignalExt::modify with the Modify handle, and SignalBag        *)
(*     (src/src/leptos_ext.rs);                                            *)
(*   - Data::from_raw, graph_upstream and graph_downstream                 *)
(*     (src/src/main.rs); pick_prefix (src/src/human.rs).                  *)
(***************************************************************************)
EXTENDS Integers, Sequences, FiniteSets, TLC

\* ------------------------------------------------------------------ bounds

\* External sets of the parent draw from 0..MaxVal, of the child from
\* 0..2*MaxVal (the image of x*2 and the values between).
MaxVal == 3
\* The write counters saturate here (they only grow without limit when a
\* propagation does not terminate).
MaxWrites == 4
\* Interval ends and window lengths are drawn from -MaxCoord..MaxCoord.
MaxCoord == 4
\* A row of cards is 1..MaxRowW wide in all, and the viewport is 1..MaxView
\* wide.
MaxRowW == 4
MaxView == 1
\* The content above a row is 0..MaxAbove high, and the user scrolls the
\* window to 0..MaxScrollY.
MaxAbove == 1
MaxScrollY == 1
\* The counter of scroll events between two frames saturates here.
MaxScrolls == 2
\* A source signal holds 1..MaxSrc and is set at most MaxSets times.
MaxSrc == 3
MaxSets == 5
\* The numbers given to pick_prefix have orders of magnitude -MaxMag..MaxMag.
MaxMag == 35
\* A snapshot has ids 1..MaxIds and at most MaxSlots parent references in
\* all.
MaxIds == 3
MaxSlots == 3
\* A bag is pushed to at most MaxBag times, from MaxSources source signals
\* that hold 0..MaxBagVal.
MaxBag == 3
MaxSources == 2
MaxBagVal == 1
\* A cell holds 0..MaxCell, has MaxHandles Modify handles, is written at most
\* MaxCellWrites times, and a handle counts its mutations up to MaxMuts.
MaxCell == 1
MaxHandles == 2
MaxCellWrites == 3
MaxMuts == 2

VARIABLES
    \* --- double_bind
    conv,          \* which (from, to) pair of closures was passed
    parent,        \* value of the parent signal (self)
    child,         \* value of the child signal, NoChild before creation
    lock,          \* SharedBox<Status>
    firstP,        \* `first` of the for_each_after_first on the parent
    firstC,        \* `first` of the for_each_after_first on the child
    subP,          \* the parent's render effect exists (is subscribed)
    subC,          \* the child's render effect exists (is subscribed)
    bindPc,        \* position inside the double_bind call
    stack,         \* effect runs in progress, innermost last
    panicked,      \* "none", or the panic that aborted the program
    ext,           \* the last external set: "none", "parent", "child"
    extVal,        \* the value of the last external set
    childWrites,   \* child.set calls made by the binding since then
    parentWrites,  \* self_.set calls made by the binding since then
    \* --- Visibility::new
    vStart, vEnd, vWindow,   \* the arguments: range.start, range.end, window
    vis,           \* the returned Visibility, NotComputed before the call
    \* --- a sweep of an interval across a window
    swWindow, swWidth, swStart, swTrace,
    \* --- a row of cards and its scroll handler
    rowDir,        \* "up": a row of graph_upstream, "down": of graph_downstream
    cards,         \* the widths of the row's cards, left to right
    viewW,         \* ViewportSize.width
    scrollLeft,    \* the row's horizontal scroll offset
    current,       \* current_parent / current_child: the active id
    frame,         \* the handler's frame: "None" or "Some" (a pending handle)
    rafQueue,      \* frame callbacks of this row the browser has yet to run
    scrollsSince,  \* scroll events since a frame callback last ran
    requestsSince, \* request_animation_frame calls since then
    evalsForBurst, \* scans run for the latest burst of scroll events
    rowPanic,      \* an unreachable!() was reached: the program is aborted
    above,         \* height of what is rendered above the row's spacer+row
    spacer,        \* the spacer signal (height of the spacer div)
    scrollY,       \* window.scroll_y()
    lastEval,      \* what the last frame callback scanned and did
    lastRestore,   \* what the last restore_position measured and did
    \* --- a source signal and the signals derived from it
    srcLog,        \* the values the source has held, the current one last
    fSel,          \* the closure given to map_dedup
    pSel,          \* the closure given to keep_if and skip_if, as the set of
                   \* values it holds of
    built,         \* the derived signals exist
    builtAt,       \* Len(srcLog) when they were created
    memo,          \* the memo of map_dedup
    memoLog,       \* the values a subscriber of the memo was run with
    win,           \* map_window: first, old, ret and the calls of f so far
    keepRet,       \* the output of keep_if
    skipRet,       \* the output of skip_if
    \* --- a cell and the Modify handles on it
    cell,          \* the value of the signal
    cellWrites,    \* calls of set on it: notifications of its subscribers
    handles,       \* per handle: open, value (the private copy), muts (the
                   \* mutations made through it), touched (the cell was
                   \* written by another while it was open)
    overwritten,   \* the value the last release replaced
    modOp,         \* the last operation, and the handle it was on
    \* --- a SignalBag and the source signals pushed to it
    srcVal,        \* the value of each source signal
    bag,           \* SignalBag.bag: the getters, each by the source it reads
    pushed,        \* the sources given to push, in the order of the calls
    bagEffects,    \* the effects push created, each by its source
    opFires,       \* how often the last operation fired SignalBag.trigger
    opSeen,        \* what a subscriber of bag.map(f) computed at each of them
    bagOp,         \* the last operation, and the source it was on
    \* --- a snapshot of the graph and one chain of a traversal
    entries,       \* Data.entries: per id, whether present, and its parents
    children,      \* Data.children
    loaded,        \* Data::from_raw has run
    pfNum,         \* the number given to pick_prefix: zero, neg, mag (the
                   \* floor of log10 |n|) and near (|n| is so little below
                   \* 10^(mag+1) that the f64 nearest to log10 |n| is mag+1)
    pfRes,         \* what pick_prefix returned for it
    trav           \* the chain: phase, dir, node (the id the innermost call
                   \* is for), done, depth (calls on the stack) and path (the
                   \* ids expanded)

bindVars == <<conv, parent, child, lock, firstP, firstC, subP, subC, bindPc,
              stack, panicked, ext, extVal, childWrites, parentWrites>>
visVars == <<vStart, vEnd, vWindow, vis>>
sweepVars == <<swWindow, swWidth, swStart, swTrace>>
rowVars == <<rowDir, cards, viewW, scrollLeft, current, frame, rafQueue,
             scrollsSince, requestsSince, evalsForBurst, rowPanic, above,
             spacer, scrollY, lastEval, lastRestore>>
combVars == <<srcLog, fSel, pSel, built, builtAt, memo, memoLog, win, keepRet,
              skipRet>>
modVars == <<cell, cellWrites, handles, overwritten, modOp>>
bagVars == <<srcVal, bag, pushed, bagEffects, opFires, opSeen, bagOp>>
graphVars == <<entries, children, loaded, trav>>
prefixVars == <<pfNum, pfRes>>
vars == <<bindVars, visVars, sweepVars, rowVars, combVars, modVars, bagVars,
    graphVars, prefixVars>>

\* ------------------------------------------------------------- double_bind

NoChild == -1

\* enum Status
Idle == "Idle"
ReactingParent == "ReactingParent"
ReactingChild == "ReactingChild"
Status == {Idle, ReactingParent, ReactingChild}

\* Rust's integer division truncates toward zero.
TruncDiv(a, b) ==
    IF a >= 0 THEN a \div b ELSE -((-a) \div b)

\* The closure pairs passed to double_bind:
\*   1: |x| x*2, |y| y/2   (the pair of the spec; not exact inverses)
\*   2: |x| x,   |y| y     (exact inverses)
\*   3: |x| x % 2, |y| y   (lossy towards the child)
ConvPairs == {1, 2, 3}

\* `from`, the parent -> child closure (to_child)
from(c, x) ==
    CASE c = 1 -> x * 2
      [] c = 2 -> x
      [] OTHER -> x % 2

\* `to`, the child -> parent closure (to_parent)
to(c, y) ==
    CASE c = 1 -> TruncDiv(y, 2)
      [] c = 2 -> y
      [] OTHER -> y

ParentVals == 0..MaxVal
ChildVals == 0..(2 * MaxVal)

Bump(n) == IF n < MaxWrites THEN n + 1 ELSE MaxWrites

Frame(e) == [eff |-> e, pc |-> "run", val |-> 0]
Top == stack[Len(stack)]
Pop == SubSeq(stack, 1, Len(stack) - 1)
SetTop(f) == [stack EXCEPT ![Len(stack)] = f]

\* SignalSet::set on a signal whose subscriber is the render effect `e`:
\* the effect, when it exists, is run before set returns.
Notify(stk, e, subscribed) ==
    IF subscribed THEN Append(stk, Frame(e)) ELSE stk

Running == panicked = "none"
Quiescent == stack = <<>>

\* SharedBox::from_to: assert_eq!(from, current); set(to)
from_to(f, t) ==
    IF lock = f
    THEN lock' = t /\ panicked' = panicked
    ELSE lock' = lock /\ panicked' = "assert_eq"

\* let child = create_rw_signal(self.with_untracked(&mut from));
\* let lock = SharedBox::new(Status::Idle);
DoubleBind ==
    /\ Running
    /\ bindPc = "unbound"
    /\ child' = from(conv, parent)
    /\ lock' = Idle
    /\ bindPc' = "bind_parent"
    /\ UNCHANGED <<conv, parent, firstP, firstC, subP, subC, stack, panicked,
                   ext, extVal, childWrites, parentWrites>>

\* self.for_each_after_first(..): create_render_effect runs the effect once,
\* at once.
BindParentEffect ==
    /\ Running
    /\ bindPc = "bind_parent"
    /\ Quiescent
    /\ firstP' = TRUE
    /\ subP' = TRUE
    /\ stack' = Append(stack, Frame("P"))
    /\ bindPc' = "bind_child"
    /\ UNCHANGED <<conv, parent, child, lock, firstC, subC, panicked,
                   ext, extVal, childWrites, parentWrites>>

\* child.for_each_after_first(..), then `child` is returned.
BindChildEffect ==
    /\ Running
    /\ bindPc = "bind_child"
    /\ Quiescent
    /\ firstC' = TRUE
    /\ subC' = TRUE
    /\ stack' = Append(stack, Frame("C"))
    /\ bindPc' = "bound"
    /\ UNCHANGED <<conv, parent, child, lock, firstP, subP, panicked,
                   ext, extVal, childWrites, parentWrites>>



\* ParentChanged with the Idle arm entering the wrong status (ReactingChild
\* for ReactingParent).
ParentChanged_WrongStatus ==
    CASE lock = Idle ->
           /\ from_to(Idle, ReactingChild)
           /\ stack' = SetTop([Top EXCEPT !.pc = "set", !.val = parent])
      [] lock = ReactingParent ->
           /\ panicked' = "unreachable"
           /\ UNCHANGED <<lock, stack>>
      [] OTHER ->
           /\ stack' = Pop
           /\ UNCHANGED <<lock, panicked>>

\* The closure given to self.for_each_after_first: match lock.get() { .. }
\*   Idle           => lock.from_to(&Idle, ReactingParent); (then child.set)
\*   ReactingParent => unreachable!()
\*   ReactingChild  => {}
ParentChanged ==
    CASE lock = Idle ->
           /\ from_to(Idle, ReactingParent)
           /\ stack' = SetTop([Top EXCEPT !.pc = "set", !.val = parent])
      [] lock = ReactingParent ->
           /\ panicked' = "unreachable"
           /\ UNCHANGED <<lock, stack>>
      [] OTHER ->
           /\ stack' = Pop
           /\ UNCHANGED <<lock, panicked>>

\* A run of the parent's render effect: for_each_after_first drops the first
\* run and hands every later one to the closure.
ParentEffectRun ==
    /\ Running
    /\ ~Quiescent
    /\ Top.eff = "P"
    /\ Top.pc = "run"
    /\ IF firstP
       THEN /\ firstP' = FALSE
            /\ stack' = Pop
            /\ UNCHANGED <<lock, panicked>>
       ELSE /\ firstP' = firstP
            /\ ParentChanged
    /\ UNCHANGED <<conv, parent, child, firstC, subP, subC, bindPc,
                   ext, extVal, childWrites, parentWrites>>


\* ParentEffectSet without the conversion: child.set(value.clone()).
ParentEffectSet_NoConversion ==
    /\ Running
    /\ ~Quiescent
    /\ Top.eff = "P"
    /\ Top.pc = "set"
    /\ child' = Top.val
    /\ childWrites' = Bump(childWrites)
    /\ stack' = Notify(SetTop([Top EXCEPT !.pc = "unlock"]), "C", subC)
    /\ UNCHANGED <<conv, parent, lock, firstP, firstC, subP, subC, bindPc,
                   panicked, ext, extVal, parentWrites>>

\* child.set(from(value)): the child's effect runs before set returns.
ParentEffectSet ==
    /\ Running
    /\ ~Quiescent
    /\ Top.eff = "P"
    /\ Top.pc = "set"
    /\ child' = from(conv, Top.val)
    /\ childWrites' = Bump(childWrites)
    /\ stack' = Notify(SetTop([Top EXCEPT !.pc = "unlock"]), "C", subC)
    /\ UNCHANGED <<conv, parent, lock, firstP, firstC, subP, subC, bindPc,
                   panicked, ext, extVal, parentWrites>>


\* ParentEffectUnlock that leaves the lock held: the run ends with the
\* status still ReactingParent.
ParentEffectUnlock_KeepsLock ==
    /\ Running
    /\ ~Quiescent
    /\ Top.eff = "P"
    /\ Top.pc = "unlock"
    /\ stack' = Pop
    /\ UNCHANGED <<conv, parent, child, lock, firstP, firstC, subP, subC,
                   bindPc, panicked, ext, extVal, childWrites, parentWrites>>

\* lock.from_to(&Status::ReactingParent, Status::Idle)
ParentEffectUnlock ==
    /\ Running
    /\ ~Quiescent
    /\ Top.eff = "P"
    /\ Top.pc = "unlock"
    /\ from_to(ReactingParent, Idle)
    /\ stack' = IF lock = ReactingParent THEN Pop ELSE stack
    /\ UNCHANGED <<conv, parent, child, firstP, firstC, subP, subC, bindPc,
                   ext, extVal, childWrites, parentWrites>>


\* ChildChanged without the echo guard: the ReactingParent arm propagates
\* like the Idle arm.
ChildChanged_NoEchoGuard ==
    CASE lock \in {Idle, ReactingParent} ->
           /\ lock' = ReactingChild
           /\ stack' = SetTop([Top EXCEPT !.pc = "set", !.val = child])
           /\ UNCHANGED panicked
      [] OTHER ->
           /\ panicked' = "unreachable"
           /\ UNCHANGED <<lock, stack>>

\* The closure given to child.for_each_after_first: match lock.get() { .. }
\*   Idle           => lock.from_to(&Idle, ReactingChild); (then self_.set)
\*   ReactingParent => {}
\*   ReactingChild  => unreachable!()
ChildChanged ==
    CASE lock = Idle ->
           /\ from_to(Idle, ReactingChild)
           /\ stack' = SetTop([Top EXCEPT !.pc = "set", !.val = child])
      [] lock = ReactingChild ->
           /\ panicked' = "unreachable"
           /\ UNCHANGED <<lock, stack>>
      [] OTHER ->
           /\ stack' = Pop
           /\ UNCHANGED <<lock, panicked>>


\* ChildEffectRun with for_each in place of for_each_after_first: the first
\* run is handed to the closure too.
ChildEffectRun_ForEach ==
    /\ Running
    /\ ~Quiescent
    /\ Top.eff = "C"
    /\ Top.pc = "run"
    /\ firstC' = FALSE
    /\ ChildChanged
    /\ UNCHANGED <<conv, parent, child, firstP, subP, subC, bindPc,
                   ext, extVal, childWrites, parentWrites>>

\* A run of the child's render effect.
ChildEffectRun ==
    /\ Running
    /\ ~Quiescent
    /\ Top.eff = "C"
    /\ Top.pc = "run"
    /\ IF firstC
       THEN /\ firstC' = FALSE
            /\ stack' = Pop
            /\ UNCHANGED <<lock, panicked>>
       ELSE /\ firstC' = firstC
            /\ ChildChanged
    /\ UNCHANGED <<conv, parent, child, firstP, subP, subC, bindPc,
                   ext, extVal, childWrites, parentWrites>>

\* self_.set(to(value)): the parent's effect runs before set returns.
ChildEffectSet ==
    /\ Running
    /\ ~Quiescent
    /\ Top.eff = "C"
    /\ Top.pc = "set"
    /\ parent' = to(conv, Top.val)
    /\ parentWrites' = Bump(parentWrites)
    /\ stack' = Notify(SetTop([Top EXCEPT !.pc = "unlock"]), "P", subP)
    /\ UNCHANGED <<conv, child, lock, firstP, firstC, subP, subC, bindPc,
                   panicked, ext, extVal, childWrites>>

\* lock.from_to(&Status::ReactingChild, Status::Idle)
ChildEffectUnlock ==
    /\ Running
    /\ ~Quiescent
    /\ Top.eff = "C"
    /\ Top.pc = "unlock"
    /\ from_to(ReactingChild, Idle)
    /\ stack' = IF lock = ReactingChild THEN Pop ELSE stack
    /\ UNCHANGED <<conv, parent, child, firstP, firstC, subP, subC, bindPc,
                   ext, extVal, childWrites, parentWrites>>

\* An external parent.set(v), made between two event handlers (no effect is
\* running).
SetParent(v) ==
    /\ Running
    /\ bindPc = "bound"
    /\ Quiescent
    /\ parent' = v
    /\ ext' = "parent"
    /\ extVal' = v
    /\ childWrites' = 0
    /\ parentWrites' = 0
    /\ stack' = Notify(stack, "P", subP)
    /\ UNCHANGED <<conv, child, lock, firstP, firstC, subP, subC, bindPc,
                   panicked>>

\* An external child.set(v) on the signal double_bind returned.
SetChild(v) ==
    /\ Running
    /\ bindPc = "bound"
    /\ Quiescent
    /\ child' = v
    /\ ext' = "child"
    /\ extVal' = v
    /\ childWrites' = 0
    /\ parentWrites' = 0
    /\ stack' = Notify(stack, "C", subC)
    /\ UNCHANGED <<conv, parent, lock, firstP, firstC, subP, subC, bindPc,
                   panicked>>

BindInit ==
    /\ conv \in ConvPairs
    /\ parent \in ParentVals
    /\ child = NoChild
    /\ lock = Idle
    /\ firstP = TRUE
    /\ firstC = TRUE
    /\ subP = FALSE
    /\ subC = FALSE
    /\ bindPc = "unbound"
    /\ stack = <<>>
    /\ panicked = "none"
    /\ ext = "none"
    /\ extVal = 0
    /\ childWrites = 0
    /\ parentWrites = 0

\* One step of the synchronous scheduler: the innermost effect run advances.
EffectStep ==
    \/ ParentEffectRun
    \/ ParentEffectSet
    \/ ParentEffectUnlock
    \/ ChildEffectRun
    \/ ChildEffectSet
    \/ ChildEffectUnlock

\* The other parts of the model do not move while the binding runs.
BindOnly == UNCHANGED <<visVars, sweepVars, rowVars, combVars, modVars,
    bagVars, graphVars, prefixVars>>

BindNext ==
    \/ DoubleBind /\ BindOnly
    \/ BindParentEffect /\ BindOnly
    \/ BindChildEffect /\ BindOnly
    \/ ParentEffectRun /\ BindOnly
    \/ ParentEffectSet /\ BindOnly
    \/ ParentEffectUnlock /\ BindOnly
    \/ ChildEffectRun /\ BindOnly
    \/ ChildEffectSet /\ BindOnly
    \/ ChildEffectUnlock /\ BindOnly
    \/ \E v \in ParentVals : SetParent(v) /\ BindOnly
    \/ \E v \in ChildVals : SetChild(v) /\ BindOnly

\* ------------------------------------------------ double_bind: properties

\* Some effect run of `e` is past its match: it holds the lock.
Holding(e) ==
    \E i \in 1..Len(stack) : stack[i].eff = e /\ stack[i].pc \in {"set", "unlock"}

Settled == bindPc = "bound" /\ Quiescent /\ Running

C1_Counts ==
    /\ ext = "parent" =>
          /\ parentWrites = 0
          /\ childWrites <= 1
          /\ Settled => childWrites = 1
    /\ ext = "child" =>
          /\ childWrites = 0
          /\ parentWrites <= 1
          /\ Settled => parentWrites = 1
    /\ Len(stack) <= 2
    /\ Quiescent => lock = Idle

\* C1: an external set of the parent (lock Idle) makes the binding write the
\* child exactly once and the parent never; an external set of the child
\* makes it write the parent exactly once and the child never; at most two
\* effect runs are ever nested, and every propagation that starts ends, with
\* the lock back at Idle.
C1_EchoIgnored ==
    /\ []C1_Counts
    /\ (~Quiescent) ~> (Quiescent /\ lock = Idle)

\* C1 witness: a parent set has settled after one write to the child, the
\* echo of that write having been delivered to the child's effect.
C1_Witness ==
    /\ Settled /\ ext = "parent" /\ ~firstC
    /\ childWrites = 1 /\ parentWrites = 0 /\ lock = Idle

\* C2 as stated: once an external set of either side has settled, the two
\* sides agree, child == to_child(parent), for every pair of conversions.
C2_SidesAgree ==
    (Settled /\ ext # "none") => child = from(conv, parent)

\* C2 amended: after a settled external set of the parent, child ==
\* to_child(parent); after a settled external set of the child to c, the
\* parent is to_parent(c) and the child is still c, so the sides agree
\* exactly when to_child(to_parent(c)) == c.
C2_AgreeUpToRoundTrip ==
    /\ (Settled /\ ext = "parent") => child = from(conv, parent)
    /\ (Settled /\ ext = "child") =>
          /\ parent = to(conv, extVal)
          /\ child = extVal
          /\ (child = from(conv, parent)) <=> (from(conv, to(conv, extVal)) = extVal)

\* C2 witness: a child set that to_child(to_parent(.)) does not give back
\* has settled, and the sides differ.
C2_Witness ==
    /\ Settled /\ ext = "child"
    /\ from(conv, to(conv, extVal)) # extVal
    /\ child # from(conv, parent)

\* C3: the child is created as to_child(parent) and creating the binding
\* writes neither side; afterwards a settled external set of the parent to p
\* leaves child == to_child(p), and a settled external set of the child to c
\* leaves parent == to_parent(c).
C3_CreationAndPropagation ==
    /\ (bindPc # "unbound" /\ ext = "none") =>
          /\ child = from(conv, parent)
          /\ parentWrites = 0
          /\ childWrites = 0
    /\ (Settled /\ ext = "parent") =>
          parent = extVal /\ child = from(conv, extVal)
    /\ (Settled /\ ext = "child") =>
          child = extVal /\ parent = to(conv, extVal)

\* C3 witness: the binding has been created, both first runs have been
\* dropped, and a child set has been carried to the parent.
C3_Witness ==
    /\ Settled /\ ext = "child" /\ ~firstP /\ ~firstC
    /\ conv = 1 /\ extVal = 2 * MaxVal /\ parent = MaxVal

\* C4: no panic: a run of the parent's closure never finds the lock at
\* ReactingParent, a run of the child's closure never finds it at
\* ReactingChild, and the assert_eq! of from_to always finds the status it
\* expects.
C4_NoSameDirectionReentry ==
    /\ panicked = "none"
    /\ ~Quiescent =>
          /\ (Top.eff = "P" /\ Top.pc = "run" /\ ~firstP) => lock # ReactingParent
          /\ (Top.eff = "C" /\ Top.pc = "run" /\ ~firstC) => lock # ReactingChild
          /\ (Top.eff = "P" /\ Top.pc = "unlock") => lock = ReactingParent
          /\ (Top.eff = "C" /\ Top.pc = "unlock") => lock = ReactingChild

\* C4 witness: the echo of a propagated child write arrives while the lock
\* is held in the opposite direction.
C4_Witness ==
    /\ Len(stack) = 2 /\ Top.eff = "C" /\ Top.pc = "run" /\ ~firstC
    /\ lock = ReactingParent /\ Running

C5_LockStates ==
    /\ lock = ReactingParent <=> Holding("P")
    /\ lock = ReactingChild <=> Holding("C")
    /\ Quiescent => lock = Idle

C5_LockStep ==
    lock' # lock => (lock = Idle \/ lock' = Idle)

\* C5: the lock only moves Idle -> ReactingParent -> Idle and
\* Idle -> ReactingChild -> Idle; it is ReactingParent exactly while the
\* parent's closure is writing the child, ReactingChild exactly while the
\* child's closure is writing the parent, and Idle whenever no effect runs.
C5_LockTransitions ==
    /\ []C5_LockStates
    /\ [][C5_LockStep]_vars

\* C5 witness: the child's closure holds the lock while the parent's effect
\* is notified of the write.
C5_Witness ==
    /\ lock = ReactingChild /\ Len(stack) = 2 /\ Top.eff = "P"
    /\ stack[1].eff = "C" /\ stack[1].pc = "unlock"

\* ------------------------------------------------------------- Visibility

\* An f64 coordinate: a number of the grid, and the sign of a zero (IEEE 754
\* has -0.0 beside +0.0: they are == to each other, but total_cmp orders
\* -0.0 below +0.0).
F(n) == [num |-> n, neg0 |-> FALSE]
NegZero == [num |-> 0, neg0 |-> TRUE]
Zero == F(0)

Coords == {F(n) : n \in (-MaxCoord)..MaxCoord} \cup {NegZero}
Windows == {F(n) : n \in 0..MaxCoord}

\* f64::total_cmp
total_cmp(a, b) ==
    IF a.num < b.num THEN "Less"
    ELSE IF a.num > b.num THEN "Greater"
    ELSE IF a.neg0 /\ ~b.neg0 THEN "Less"
    ELSE IF ~a.neg0 /\ b.neg0 THEN "Greater"
    ELSE "Equal"

\* The f64 comparison operators <, <=, == (the sign of a zero is ignored).
Lt(a, b) == a.num < b.num
Le(a, b) == a.num <= b.num
Eq(a, b) == a.num = b.num

\* enum Visibility; the f64 payload n / d is kept as the exact quotient of
\* the two operands of the division (d = 0: a division by zero).
Before == [tag |-> "Before", n |-> 0, d |-> 0]
Inside == [tag |-> "Inside", n |-> 0, d |-> 0]
After == [tag |-> "After", n |-> 0, d |-> 0]
PeekingBefore(n, d) == [tag |-> "PeekingBefore", n |-> n, d |-> d]
PeekingAfter(n, d) == [tag |-> "PeekingAfter", n |-> n, d |-> d]
Straddling(n, d) == [tag |-> "Straddling", n |-> n, d |-> d]
\* unreachable!(): the call panics instead of returning
Unreachable == [tag |-> "unreachable", n |-> 0, d |-> 0]
NotComputed == [tag |-> "none", n |-> 0, d |-> 0]

Variants ==
    {"Before", "PeekingBefore", "Inside", "PeekingAfter", "After", "Straddling"}


\* NewLess with the hidden part of the box in place of the visible part:
\* PeekingBefore(-start / (end - start)).
NewLess_HiddenPart(start, end, window) ==
    IF Le(end, Zero) THEN Before
    ELSE IF Le(end, window) THEN PeekingBefore(-start.num, end.num - start.num)
    ELSE Straddling(window.num, end.num - start.num)

\* NewLess with a sign slip in the length: PeekingBefore(end / (end + start)).
NewLess_SignSlip(start, end, window) ==
    IF Le(end, Zero) THEN Before
    ELSE IF Le(end, window) THEN PeekingBefore(end.num, end.num + start.num)
    ELSE Straddling(window.num, end.num + start.num)

\* Visibility::new, the arm std::cmp::Ordering::Less
NewLess(start, end, window) ==
    IF Le(end, Zero) THEN Before
    ELSE IF Le(end, window) THEN PeekingBefore(end.num, end.num - start.num)
    ELSE Straddling(window.num, end.num - start.num)


\* NewEqual with the first test of the Greater arm (end <= 0. for end < 0.).
NewEqual_EndLeZero(start, end, window) ==
    IF Le(end, Zero) THEN Unreachable
    ELSE IF Eq(end, Zero) THEN Before
    ELSE IF Le(end, window) THEN Inside
    ELSE PeekingAfter(window.num, end.num - start.num)

\* Visibility::new, the arm std::cmp::Ordering::Equal
NewEqual(start, end, window) ==
    IF Lt(end, Zero) THEN Unreachable
    ELSE IF Eq(end, Zero) THEN Before
    ELSE IF Le(end, window) THEN Inside
    ELSE PeekingAfter(window.num, end.num - start.num)


\* NewGreaterInWindow with the fraction of the Equal arm:
\* PeekingAfter(window / (end - start)).
NewGreaterInWindow_WholeWindow(start, end, window) ==
    IF Le(end, Zero) THEN Unreachable
    ELSE IF Le(end, window) THEN Inside
    ELSE PeekingAfter(window.num, end.num - start.num)

\* Visibility::new, the arm std::cmp::Ordering::Greater if start < window
NewGreaterInWindow(start, end, window) ==
    IF Le(end, Zero) THEN Unreachable
    ELSE IF Le(end, window) THEN Inside
    ELSE PeekingAfter(window.num - start.num, end.num - start.num)

\* Visibility::new(range, window), range = start..end
Visibility_new(start, end, window) ==
    LET ord == total_cmp(start, Zero) IN
    CASE ord = "Less" -> NewLess(start, end, window)
      [] ord = "Equal" -> NewEqual(start, end, window)
      [] ord = "Greater" /\ Lt(start, window) ->
             NewGreaterInWindow(start, end, window)
      [] OTHER -> After

\* Option<f64>
None == [some |-> FALSE, n |-> 0, d |-> 0]
Some(n, d) == [some |-> TRUE, n |-> n, d |-> d]

\* Visibility::fraction_visible
fraction_visible(v) ==
    CASE v.tag \in {"Before", "After"} -> None
      [] v.tag \in {"PeekingBefore", "PeekingAfter", "Straddling"} ->
             Some(v.n, v.d)
      [] OTHER -> Some(1, 1)

\* Visibility::is_visible
is_visible(v) == fraction_visible(v).some

Intervals == {r \in Coords \X Coords : Le(r[1], r[2])}

VisInit ==
    /\ \E r \in Intervals : vStart = r[1] /\ vEnd = r[2]
    /\ vWindow \in Windows
    /\ vis = NotComputed

\* A call Visibility::new(vStart..vEnd, vWindow).
Classify ==
    /\ vis = NotComputed
    /\ vis' = Visibility_new(vStart, vEnd, vWindow)
    /\ UNCHANGED <<vStart, vEnd, vWindow>>

\* The next rect and viewport are measured (horizontal_from_rect,
\* vertical_from_rect): any interval, any window length.
Measure ==
    /\ vis # NotComputed
    /\ \E r \in Intervals : vStart' = r[1] /\ vEnd' = r[2]
    /\ vWindow' \in Windows
    /\ vis' = NotComputed

VisOnly == UNCHANGED <<bindVars, sweepVars, rowVars, combVars, modVars,
    bagVars, graphVars, prefixVars>>

VisNext ==
    \/ Classify /\ VisOnly
    \/ Measure /\ VisOnly

\* ------------------------------------------------------------------ sweep

\* An interval of fixed width slides across a fixed window [0, w): start goes
\* from SweepFrom to SweepTo in steps of SweepStep, and each position is
\* classified.
SweepWindows == {100, 40}
SweepWidths == {50, 20, 120}
SweepRange == [from |-> -60, to |-> 110, step |-> 10]

SweepInit ==
    /\ swWindow \in SweepWindows
    /\ swWidth \in SweepWidths
    /\ swStart = SweepRange.from
    /\ swTrace = <<>>

SweepStep ==
    /\ swStart <= SweepRange.to
    /\ LET v == Visibility_new(F(swStart), F(swStart + swWidth), F(swWindow))
       IN swTrace' = Append(swTrace, [start |-> swStart, tag |-> v.tag,
                                      frac |-> fraction_visible(v)])
    /\ swStart' = swStart + SweepRange.step
    /\ UNCHANGED <<swWindow, swWidth>>

\* When a sweep is over, another one starts.
SweepRestart ==
    /\ swStart > SweepRange.to
    /\ swWindow' \in SweepWindows
    /\ swWidth' \in SweepWidths
    /\ swStart' = SweepRange.from
    /\ swTrace' = <<>>

SweepOnly == UNCHANGED <<bindVars, visVars, rowVars, combVars, modVars,
    bagVars, graphVars, prefixVars>>

SweepNext ==
    \/ SweepStep /\ SweepOnly
    \/ SweepRestart /\ SweepOnly

\* ------------------------------------------------- Visibility: properties

Classified == vis # NotComputed
WithFraction == {"PeekingBefore", "PeekingAfter", "Straddling"}

Min(a, b) == IF a <= b THEN a ELSE b
Max(a, b) == IF a >= b THEN a ELSE b

\* C6: for start <= end and w >= 0, Visibility::new returns one of the six
\* variants (no unreachable!() arm is taken), no fraction is a division by
\* zero, and fraction_visible() is None exactly for Before and After.
C6_Total ==
    Classified =>
        /\ vis.tag \in Variants
        /\ vis.tag \in WithFraction => vis.d # 0
        /\ (fraction_visible(vis) = None) <=> (vis.tag \in {"Before", "After"})
        /\ fraction_visible(vis).some => fraction_visible(vis).d # 0

\* C6 witness: the zero-width box at the origin, start == end == 0, taken by
\* the Equal arm, is classified (as Before).
C6_Witness ==
    /\ Classified /\ vStart = Zero /\ vEnd = Zero
    /\ vis = Before /\ fraction_visible(vis) = None

\* C7: for start <= end and w > 0 the variant is that of the case table:
\* Before when end <= 0; PeekingBefore when start < 0 < end <= w; Straddling
\* when start < 0 and end > w; Inside when 0 <= start < w and 0 < end <= w;
\* PeekingAfter when 0 <= start < w and end > w; After when start >= w.
C7_CaseTable ==
    (Classified /\ Lt(Zero, vWindow)) =>
        /\ Le(vEnd, Zero) => vis.tag = "Before"
        /\ (Lt(vStart, Zero) /\ Lt(Zero, vEnd) /\ Le(vEnd, vWindow)) =>
              vis.tag = "PeekingBefore"
        /\ (Lt(vStart, Zero) /\ Lt(vWindow, vEnd)) => vis.tag = "Straddling"
        /\ (Le(Zero, vStart) /\ Lt(vStart, vWindow) /\ Lt(Zero, vEnd)
              /\ Le(vEnd, vWindow)) => vis.tag = "Inside"
        /\ (Le(Zero, vStart) /\ Lt(vStart, vWindow) /\ Lt(vWindow, vEnd)) =>
              vis.tag = "PeekingAfter"
        /\ Le(vWindow, vStart) => vis.tag = "After"

\* C8 as stated: for start <= end and w >= 0, the fraction of a
\* PeekingBefore, PeekingAfter or Straddling result is > 0 and <= 1.
C8_FractionRangeAnyWindow ==
    (Classified /\ vis.tag \in WithFraction) =>
        vis.d > 0 /\ 0 < vis.n /\ vis.n <= vis.d

\* C8 amended: for start <= end and w > 0, the fraction of a PeekingBefore,
\* PeekingAfter or Straddling result is > 0 and <= 1.
C8_FractionRange ==
    (Classified /\ Lt(Zero, vWindow) /\ vis.tag \in WithFraction) =>
        vis.d > 0 /\ 0 < vis.n /\ vis.n <= vis.d

\* C8 witness: a box wider than a window of positive length straddles it,
\* with a fraction strictly between 0 and 1.
C8_Witness ==
    /\ Classified /\ Lt(Zero, vWindow) /\ vis.tag = "Straddling"
    /\ 0 < vis.n /\ vis.n < vis.d

\* C9: for start < end and w > 0, a visible result has fraction_visible()
\* = |[start, end) /\ [0, w)| / (end - start): end/(end-start) for
\* PeekingBefore, w/(end-start) for Straddling, (w-start)/(end-start) for
\* PeekingAfter, 1 for Inside.
C9_FractionIsOverlap ==
    LET f == fraction_visible(vis)
        len == vEnd.num - vStart.num
        overlap == Min(vEnd.num, vWindow.num) - Max(vStart.num, 0)
    IN (Classified /\ Lt(vStart, vEnd) /\ Lt(Zero, vWindow) /\ is_visible(vis)) =>
        /\ f.d # 0
        /\ f.n * len = overlap * f.d
        /\ vis.tag = "PeekingBefore" => f.n * len = vEnd.num * f.d
        /\ vis.tag = "Straddling" => f.n * len = vWindow.num * f.d
        /\ vis.tag = "PeekingAfter" =>
              f.n * len = (vWindow.num - vStart.num) * f.d
        /\ vis.tag = "Inside" => f.n = f.d

\* C9 witness: a box that starts inside the window and ends after it shows
\* a part of itself that is neither all of the box nor all of the window.
C9_Witness ==
    /\ Classified /\ vis.tag = "PeekingAfter" /\ Lt(Zero, vStart)
    /\ fraction_visible(vis) =
          Some(vWindow.num - vStart.num, vEnd.num - vStart.num)
    /\ vis.n < vis.d

\* ------------------------------------------------------ sweep: properties

\* fraction_visible as a quotient, an absent fraction counting as 0
FracN(f) == IF f.some THEN f.n ELSE 0
FracD(f) == IF f.some THEN f.d ELSE 1
FracLe(f, g) == FracN(f) * FracD(g) <= FracN(g) * FracD(f)

\* The order in which a sliding box passes through the variants.
TagRank(t) ==
    CASE t = "Before" -> 0
      [] t = "PeekingBefore" -> 1
      [] t \in {"Inside", "Straddling"} -> 2
      [] t = "PeekingAfter" -> 3
      [] t = "After" -> 4
      [] OTHER -> 5

SweepShape(tr) ==
    /\ \A i \in 1..Len(tr) :
          /\ TagRank(tr[i].tag) <= 4
          /\ tr[i].frac.some => tr[i].frac.d > 0
          /\ ~tr[i].frac.some <=> tr[i].tag \in {"Before", "After"}
          /\ tr[i].tag = "Inside" => tr[i].frac = Some(1, 1)
          /\ FracLe(tr[i].frac, Some(1, 1))
    /\ \A i, j \in 1..Len(tr) : i < j =>
          /\ TagRank(tr[i].tag) <= TagRank(tr[j].tag)
          /\ TagRank(tr[j].tag) <= 2 => FracLe(tr[i].frac, tr[j].frac)
          /\ TagRank(tr[i].tag) >= 2 => FracLe(tr[j].frac, tr[i].frac)

IsClaimedSweep == swWindow = 100 /\ swWidth = 50
SweepDone == swStart > SweepRange.to

\* C10: over the window [0,100), a box of width 50 whose start goes from -60
\* to 110 in steps of 10 has no fraction while Before, then fractions that
\* do not decrease up to 1 at Inside, 1 while Inside, then fractions that do
\* not increase until After, where it has none again. (The same shape holds
\* of the other sweeps, whose boxes may straddle the window instead.)
C10_SweepMonotone ==
    /\ SweepShape(swTrace)
    /\ (IsClaimedSweep /\ SweepDone) =>
          /\ swTrace[1].tag = "Before"
          /\ swTrace[Len(swTrace)].tag = "After"
          /\ \E i \in 1..Len(swTrace) : swTrace[i].tag = "Inside"
          /\ \A i \in 1..Len(swTrace) : swTrace[i].tag # "Straddling"

\* C10 witness: the sweep of the claim is over: 18 positions, the box first
\* peeking in at start = -40 with 1/5 visible, and last peeking out at
\* start = 90 with 1/5 visible.
C10_Witness ==
    /\ IsClaimedSweep /\ SweepDone /\ Len(swTrace) = 18
    /\ swTrace[3] = [start |-> -40, tag |-> "PeekingBefore", frac |-> Some(10, 50)]
    /\ swTrace[7].tag = "Inside"
    /\ swTrace[16] = [start |-> 90, tag |-> "PeekingAfter", frac |-> Some(10, 50)]
    /\ swTrace[17].tag = "After"

\* --------------------------------------------------------- a row of cards

\* The elements of a Vec.
Elems(seq) == {seq[i] : i \in 1..Len(seq)}

\* Visibility::is_first_visible
is_first_visible(v) == v.tag \in {"PeekingBefore", "Straddling"}

\* The ids of a row of n cards (parent_ids / child_ids), left to right.
RowIds(n) == [i \in 1..n |-> i]

RECURSIVE SumTo(_, _)
SumTo(ws, i) == IF i = 0 THEN 0 ELSE ws[i] + SumTo(ws, i - 1)

\* get_bounding_client_rect() of the cards: left and right of each card,
\* relative to the viewport, for a row that starts at the viewport's left
\* edge and is scrolled by sl.
Rects(ws, sl) ==
    [i \in 1..Len(ws) |-> <<SumTo(ws, i - 1) - sl, SumTo(ws, i) - sl>>]

\* The row cannot be scrolled past its last card.
MaxScrollLeft(ws, w) == Max(0, SumTo(ws, Len(ws)) - w)

\* Visibility::horizontal_from_element
horizontal(rect, w) == Visibility_new(F(rect[1]), F(rect[2]), F(w))

ScanUnreachable == [kind |-> "unreachable", id |-> 0, idx |-> 0]
\* A scan that returns the id after the one it found.
Found_NextId(id, i) == [kind |-> "ok", id |-> id + 1, idx |-> i]

\* return (*id, e.clone()), for the i-th pair
Found(id, i) == [kind |-> "ok", id |-> id, idx |-> i]

\* first_visible_element: the loop over ids.iter().zip(elements), from the
\* i-th pair on.
RECURSIVE Scan(_, _, _, _)
Scan(ids, rects, w, i) ==
    IF i > Min(Len(ids), Len(rects)) THEN ScanUnreachable
    ELSE LET v == horizontal(rects[i], w) IN
         CASE v.tag = "Before" -> Scan(ids, rects, w, i + 1)
           [] v.tag \in {"PeekingBefore", "Inside"} -> Found(ids[i], i)
           [] OTHER -> ScanUnreachable

\* first_visible_element(ids, elements)
first_visible_element(ids, rects, w) == Scan(ids, rects, w, 1)

\* set_if_changed without its comparison: set is always called.
set_if_changed_Always(old, value) == [value |-> value, set |-> TRUE]

\* WriteSignalExt::set_if_changed: the value after the call, and whether set
\* was called (the subscribers notified).
set_if_changed(old, value) ==
    IF old # value THEN [value |-> value, set |-> TRUE]
    ELSE [value |-> old, set |-> FALSE]

\* e.get_bounding_client_rect().top() of a card of the row
CardTop(ab, sp, y) == ab + sp - y

\* window.scroll_to_with_x_and_y(0., y): the offset the window is left at
\* (an offset below 0 is clamped; the page ends in a block of 150vh, so the
\* other end is not met).
scroll_to(y) == Max(0, y)

\* restore_position without the reset of the spacer before the card is
\* measured again.
restore_position_NoReset(at, ab, sp, y) ==
    LET top0 == CardTop(ab, sp, y)
        delta0 == top0 - at
        margin == delta0 + y
        sp1 == IF margin <= 0 THEN -margin ELSE sp
        top1 == IF margin <= 0 THEN CardTop(ab, sp1, y) ELSE top0
        delta1 == IF margin <= 0 THEN top1 - at ELSE delta0
        y1 == scroll_to(delta1)
    IN [ran |-> TRUE, at |-> at, spacerBefore |-> sp, top0 |-> top0,
        margin |-> margin, spacer |-> sp1, delta |-> delta1, preY |-> y,
        postY |-> y1, topAfter |-> CardTop(ab, sp1, y1)]

\* restore_position(at, e, spacer), with ab the height now rendered above,
\* sp the spacer and y the window's offset at the call.
restore_position(at, ab, sp, y) ==
    LET sp0 == set_if_changed(sp, 0).value
        top0 == CardTop(ab, sp0, y)
        delta0 == top0 - at
        margin == delta0 + y
        sp1 == IF margin <= 0 THEN set_if_changed(sp0, -margin).value ELSE sp0
        top1 == IF margin <= 0 THEN CardTop(ab, sp1, y) ELSE top0
        delta1 == IF margin <= 0 THEN top1 - at ELSE delta0
        y1 == scroll_to(delta1)
    IN [ran |-> TRUE, at |-> at, spacerBefore |-> sp, top0 |-> top0,
        margin |-> margin, spacer |-> sp1, delta |-> delta1, preY |-> y, postY |-> y1,
        topAfter |-> CardTop(ab, sp1, y1)]

NoRestore ==
    [ran |-> FALSE, at |-> 0, spacerBefore |-> 0, top0 |-> 0, margin |-> 0,
     spacer |-> 0, delta |-> 0, preY |-> 0, postY |-> 0, topAfter |-> 0]
NoEval ==
    [done |-> FALSE, scrollLeft |-> 0, res |-> ScanUnreachable, before |-> 0,
     wrote |-> FALSE]

CardRows ==
    {ws \in UNION {[1..n -> 1..MaxRowW] : n \in 1..MaxRowW} :
        SumTo(ws, Len(ws)) <= MaxRowW}

RowInit ==
    /\ rowDir \in {"up", "down"}
    /\ cards \in CardRows
    /\ viewW \in 1..MaxView
    /\ scrollLeft = 0
    /\ current = RowIds(Len(cards))[1]
    /\ frame = "None"
    /\ rafQueue = 0
    /\ scrollsSince = 0
    /\ requestsSince = 0
    /\ evalsForBurst = 0
    /\ rowPanic = FALSE
    /\ above \in 0..MaxAbove
    /\ spacer = 0
    /\ scrollY \in 0..MaxScrollY
    /\ lastEval = NoEval
    /\ lastRestore = NoRestore

\* A scroll handler that requests a frame at every event.
OnScroll_AlwaysRequests(fr) == [frame |-> "Some", requested |-> 1]

\* The scroll handler's frame.take().unwrap_or_else(request_animation_frame)
\* and frame.replace(Some(new)): the handle after the event, and the number
\* of callbacks requested by it.
OnScroll(fr) ==
    IF fr = "None" THEN [frame |-> "Some", requested |-> 1]
    ELSE [frame |-> "Some", requested |-> 0]

\* The user scrolls the row sideways to sl: one scroll event.
ScrollRow(sl) ==
    /\ ~rowPanic
    /\ sl # scrollLeft
    /\ sl \in 0..MaxScrollLeft(cards, viewW)
    /\ scrollLeft' = sl
    /\ frame' = OnScroll(frame).frame
    /\ rafQueue' = rafQueue + OnScroll(frame).requested
    /\ requestsSince' = requestsSince + OnScroll(frame).requested
    /\ scrollsSince' = IF scrollsSince < MaxScrolls THEN scrollsSince + 1
                       ELSE MaxScrolls
    /\ evalsForBurst' = IF scrollsSince = 0 THEN 0 ELSE evalsForBurst
    /\ UNCHANGED <<rowDir, cards, viewW, current, rowPanic, above, spacer,
                   scrollY, lastEval, lastRestore>>

\* The user scrolls the window up or down to y.
ScrollWindow(y) ==
    /\ ~rowPanic
    /\ y # scrollY
    /\ scrollY' = y
    /\ UNCHANGED <<rowDir, cards, viewW, scrollLeft, current, frame, rafQueue,
                   scrollsSince, requestsSince, evalsForBurst, rowPanic,
                   above, spacer, lastEval, lastRestore>>

\* A frame callback that leaves the handle where it is.
FrameScan_KeepsHandle(res) ==
    /\ ~rowPanic
    /\ rafQueue > 0
    /\ res = first_visible_element(RowIds(Len(cards)), Rects(cards, scrollLeft),
                                   viewW)
    /\ rafQueue' = rafQueue - 1
    /\ scrollsSince' = 0
    /\ requestsSince' = 0
    /\ evalsForBurst' = evalsForBurst + 1
    /\ rowPanic' = (res.kind # "ok")
    /\ frame' = frame
    /\ UNCHANGED <<rowDir, cards, viewW, scrollLeft>>

\* What both frame callbacks share: the scan, and at the end
\* drop(inner.take()); a scan that panics ends the program there.
FrameScan(res) ==
    /\ ~rowPanic
    /\ rafQueue > 0
    /\ res = first_visible_element(RowIds(Len(cards)), Rects(cards, scrollLeft),
                                   viewW)
    /\ rafQueue' = rafQueue - 1
    /\ scrollsSince' = 0
    /\ requestsSince' = 0
    /\ evalsForBurst' = evalsForBurst + 1
    /\ rowPanic' = (res.kind # "ok")
    /\ frame' = IF res.kind = "ok" THEN "None" ELSE frame
    /\ UNCHANGED <<rowDir, cards, viewW, scrollLeft>>

\* The frame callback of graph_downstream:
\* current_child.set_if_changed(first_id).
DownstreamFrame ==
    /\ rowDir = "down"
    /\ \E res \in {first_visible_element(RowIds(Len(cards)),
                                         Rects(cards, scrollLeft), viewW)} :
          /\ FrameScan(res)
          /\ LET w == set_if_changed(current, res.id) IN
             IF res.kind = "ok"
             THEN /\ current' = w.value
                  /\ lastEval' = [done |-> TRUE, scrollLeft |-> scrollLeft,
                                  res |-> res, before |-> current,
                                  wrote |-> w.set]
             ELSE /\ current' = current
                  /\ lastEval' = [done |-> TRUE, scrollLeft |-> scrollLeft,
                                  res |-> res, before |-> current,
                                  wrote |-> FALSE]
    /\ UNCHANGED <<above, spacer, scrollY, lastRestore>>

\* An upstream callback that swaps at every scan.
parent_changed_Always(cur, id) == TRUE

\* current_parent.get_untracked() != first_id
parent_changed(cur, id) == cur # id

\* The frame callback of graph_upstream: when the scan selects another id,
\* the card's top is read, current_parent is set (what is rendered above the
\* row is rebuilt, to any height), and restore_position runs.
UpstreamFrame ==
    /\ rowDir = "up"
    /\ \E res \in {first_visible_element(RowIds(Len(cards)),
                                         Rects(cards, scrollLeft), viewW)} :
          /\ FrameScan(res)
          /\ IF res.kind = "ok" /\ parent_changed(current, res.id)
             THEN \E h \in 0..MaxAbove :
                    LET at == CardTop(above, spacer, scrollY)
                        r == restore_position(at, h, spacer, scrollY)
                    IN /\ current' = res.id
                       /\ above' = h
                       /\ spacer' = r.spacer
                       /\ scrollY' = r.postY
                       /\ lastRestore' = r
                       /\ lastEval' = [done |-> TRUE, scrollLeft |-> scrollLeft,
                                       res |-> res, before |-> current,
                                       wrote |-> TRUE]
             ELSE /\ lastEval' = [done |-> TRUE, scrollLeft |-> scrollLeft,
                                  res |-> res, before |-> current,
                                  wrote |-> FALSE]
                  /\ UNCHANGED <<current, above, spacer, scrollY, lastRestore>>

RowOnly == UNCHANGED <<bindVars, visVars, sweepVars, combVars, modVars,
    bagVars, graphVars, prefixVars>>

RowNext ==
    \/ \E sl \in 0..MaxRowW : ScrollRow(sl) /\ RowOnly
    \/ \E y \in 0..MaxScrollY : ScrollWindow(y) /\ RowOnly
    \/ DownstreamFrame /\ RowOnly
    \/ UpstreamFrame /\ RowOnly

\* ------------------------------------------------- claims about the row

\* C11: however many scroll events a row receives between two frame
\* callbacks, one callback is requested for them and one scan runs for them;
\* a row never has more than one frame callback pending.
C11_Coalesced ==
    /\ rafQueue <= 1
    /\ requestsSince = rafQueue
    /\ (scrollsSince > 0 <=> requestsSince = 1)
    /\ evalsForBurst <= 1
    /\ (lastEval.done /\ scrollsSince = 0 => evalsForBurst = 1)

\* A second burst of several scroll events, after a first was evaluated.
C11_Witness ==
    /\ lastEval.done
    /\ scrollsSince >= 2
    /\ rafQueue = 1

\* The cards of the last scan that were not Before, as indices.
NotBefore(ws, sl, w) ==
    {i \in 1..Len(ws) : horizontal(Rects(ws, sl)[i], w).tag # "Before"}

\* The first of them.
FirstNotBefore(ws, sl, w) ==
    CHOOSE i \in NotBefore(ws, sl, w) : \A j \in NotBefore(ws, sl, w) : i <= j

\* C12: the scan skips the cards that are Before and selects the first card
\* that is_first_visible (PeekingBefore or Straddling) or Inside, returning
\* its id; a Straddling first card is selected.
C12_SelectsFirstVisible ==
    lastEval.done /\ NotBefore(cards, lastEval.scrollLeft, viewW) # {} =>
        LET k == FirstNotBefore(cards, lastEval.scrollLeft, viewW)
            v == horizontal(Rects(cards, lastEval.scrollLeft)[k], viewW)
        IN is_first_visible(v) \/ v.tag = "Inside" =>
               lastEval.res = Found(RowIds(Len(cards))[k], k)

\* C13: whenever some card is not Before, the scan returns the id of the
\* first card that is not Before, whatever that card's state, and never
\* reaches unreachable!().
C13_FirstNotBeforeReturned ==
    lastEval.done /\ NotBefore(cards, lastEval.scrollLeft, viewW) # {} =>
        LET k == FirstNotBefore(cards, lastEval.scrollLeft, viewW)
        IN lastEval.res = Found(RowIds(Len(cards))[k], k)

\* C14: the downstream frame callback writes (and notifies) the active child
\* exactly when the selected id differs from it, and after every scan that
\* selected a card the active child is the selected id.
C14_WritesOnlyOnChange ==
    rowDir = "down" /\ lastEval.done /\ lastEval.res.kind = "ok" =>
        /\ lastEval.wrote <=> lastEval.res.id # lastEval.before
        /\ current = lastEval.res.id

\* A scan that selected the card that was active already, after an earlier
\* scan had made it active.
C14_Witness ==
    /\ rowDir = "down"
    /\ lastEval.done
    /\ lastEval.res.kind = "ok"
    /\ ~lastEval.wrote
    /\ current = 2

\* C15: after the upstream callback changed the active parent and
\* restore_position ran, the selected card's top is the top captured before
\* the change, whatever the height above became and whatever the window's
\* offset was.
C15_CardStationary ==
    lastRestore.ran => lastRestore.topAfter = lastRestore.at

\* C16: the final scroll of restore_position moves the window by delta: the
\* offset after it is the offset before it plus delta.
C16_ScrollsByDelta ==
    lastRestore.ran => lastRestore.postY = lastRestore.preY + lastRestore.delta

\* C17: restore_position measures the card with the spacer at 0; margin is
\* (new top - old top) + the window's offset; the spacer becomes -margin
\* exactly when margin <= 0 and stays 0 when margin > 0; the spacer is never
\* negative.
C17_SpacerRule ==
    /\ spacer >= 0
    /\ lastRestore.ran =>
        /\ lastRestore.top0 = CardTop(above, 0, lastRestore.preY)
        /\ lastRestore.margin =
               (lastRestore.top0 - lastRestore.at) + lastRestore.preY
        /\ lastRestore.margin <= 0 => lastRestore.spacer = -lastRestore.margin
        /\ lastRestore.margin > 0 => lastRestore.spacer = 0
        /\ spacer = lastRestore.spacer

\* A restoration that found the spacer widened by an earlier one and left it
\* at 0.
C17_Witness ==
    /\ lastRestore.ran
    /\ lastRestore.spacerBefore > 0
    /\ lastRestore.margin > 0
    /\ spacer = 0

\* What an upstream frame callback whose scan returned does in a step.
C26_UpstreamStep ==
    rowDir = "up" /\ rafQueue' < rafQueue /\ lastEval'.res.kind = "ok" =>
        IF lastEval'.res.id = current
        THEN /\ ~lastEval'.wrote
             /\ UNCHANGED <<current, spacer, scrollY, above, lastRestore>>
        ELSE /\ lastEval'.wrote
             /\ current' = lastEval'.res.id
             /\ lastRestore'.at = CardTop(above, spacer, scrollY)
             /\ lastRestore'.top0 = CardTop(above', 0, scrollY)

\* C26: an upstream scan that selects the active parent changes nothing:
\* the cell is not written, the spacer keeps its height and the window is
\* not scrolled; when it selects another id, the card's top is read before
\* the cell is written and restore_position measures after the write.
C26_NoOpWhenSame == [][C26_UpstreamStep]_vars

\* A scan that selected the active parent again, after a swap had moved
\* the window.
C26_Witness ==
    /\ rowDir = "up"
    /\ lastEval.done
    /\ lastEval.res.kind = "ok"
    /\ ~lastEval.wrote
    /\ lastRestore.ran
    /\ scrollY > 0

\* C27: a frame callback that completes clears the row's handle, so a
\* scroll event after it requests a frame again; every scroll event is
\* followed by a scan that starts after it, when every requested frame
\* fires.
C27_ScrollLeadsToScan ==
    /\ [](~rowPanic => (frame = "Some" <=> rafQueue = 1))
    /\ (scrollsSince > 0) ~> (scrollsSince = 0)

\* A scroll event after a scan has requested a frame of its own.
C27_Witness ==
    /\ lastEval.done
    /\ frame = "Some"
    /\ scrollsSince = 1
    /\ requestsSince = 1
    /\ rafQueue = 1

\* C28: the active id of a row is one of the row's ids: it starts as the
\* first of them and is replaced only by an id the scan of the row returned.
C28_ActiveInRow ==
    /\ current \in Elems(RowIds(Len(cards)))
    /\ current = IF ~lastEval.done THEN RowIds(Len(cards))[1]
                 ELSE IF lastEval.res.kind = "ok" THEN lastEval.res.id
                 ELSE lastEval.before
    /\ lastEval.done /\ lastEval.res.kind = "ok" =>
           lastEval.res.id = RowIds(Len(cards))[lastEval.res.idx]

\* An upstream row of three cards, scrolled back from the third to the
\* second.
C28_Witness ==
    /\ rowDir = "up"
    /\ Len(cards) = 3
    /\ lastEval.wrote
    /\ lastEval.before = 3
    /\ current = 2

\* ------------------------------------------------------ derived signals

SrcVals == 1..MaxSrc

\* The closures given to map_dedup: Clone::clone (as dedup gives it) and a
\* halving |v| v / 2, which maps different values to the same one.
Closures == {"clone", "halve"}
MapF(sel, v) == IF sel = "clone" THEN v ELSE v \div 2

\* The closures given to keep_if / skip_if: |v| v % 2 == 0 and |v| *v >= 2.
Predicates == {{v \in SrcVals : v % 2 = 0}, {v \in SrcVals : v >= 2}}
Holds(p, v) == v \in p

\* The Option<&Inner> map_window hands to its closure.
NoOld == [some |-> FALSE, v |-> 0]
SomeOld(v) == [some |-> TRUE, v |-> v]

\* The closure given to map_window: |old, new| new - old.unwrap_or(0).
WindowF(old, new) == IF old.some THEN new - old.v ELSE new

\* The source's current value.
Src == srcLog[Len(srcLog)]

\* A memo whose subscribers run at every change of the source.
memo_run_NoDedup(sel, old, log, v) ==
    [value |-> MapF(sel, v), log |-> Append(log, MapF(sel, v))]

\* create_memo at a notification of the source: the closure is run again, and
\* the memo's subscribers run only when the result is not equal to the old.
memo_run(sel, old, log, v) ==
    IF MapF(sel, v) # old
    THEN [value |-> MapF(sel, v), log |-> Append(log, MapF(sel, v))]
    ELSE [value |-> old, log |-> log]

NoWindow == [first |-> TRUE, old |-> 0, ret |-> 0, calls |-> <<>>]

\* map_window up to its for_each_after_first: f(None, current) makes ret.
window_new(v) ==
    [first |-> TRUE, old |-> v, ret |-> WindowF(NoOld, v),
     calls |-> <<<<NoOld, v>>>>]

\* A map_window whose closure never forgets the value it was created with.
window_run_KeepsOld(w, v) ==
    IF w.first THEN [w EXCEPT !.first = FALSE]
    ELSE [w EXCEPT !.ret = WindowF(SomeOld(w.old), v),
                   !.calls = Append(w.calls, <<SomeOld(w.old), v>>)]

\* One run of the effect of for_each_after_first in map_window: the first run
\* only clears first; the others call f(Some(&old), new), set ret and keep
\* new as old.
window_run(w, v) ==
    IF w.first THEN [w EXCEPT !.first = FALSE]
    ELSE [w EXCEPT !.ret = WindowF(SomeOld(w.old), v),
                   !.calls = Append(w.calls, <<SomeOld(w.old), v>>),
                   !.old = v]

\* A keep_if that keeps every value.
keep_run_KeepsAll(p, ret, v) == v

\* One run of the effect of for_each in keep_if: ret is set when f(value).
keep_run(p, ret, v) == IF Holds(p, v) THEN v ELSE ret

\* keep_if: ret starts as the source's value, and the effect runs at once.
keep_if(p, v) == keep_run(p, v, v)

\* skip_if: keep_if(move |v| !f(v)).
skip_run(p, ret, v) == keep_run(SrcVals \ p, ret, v)
skip_if(p, v) == keep_if(SrcVals \ p, v)

CombInit ==
    /\ srcLog \in {<<v>> : v \in SrcVals}
    /\ fSel \in Closures
    /\ pSel \in Predicates
    /\ built = FALSE
    /\ builtAt = 0
    /\ memo = 0
    /\ memoLog = <<>>
    /\ win = NoWindow
    /\ keepRet = 0
    /\ skipRet = 0

\* source.map_dedup(f) with one subscriber, source.map_window(f),
\* source.keep_if(p) and source.skip_if(p) are created; every effect runs
\* once at its creation.
Build ==
    /\ ~built
    /\ built' = TRUE
    /\ builtAt' = Len(srcLog)
    /\ memo' = MapF(fSel, Src)
    /\ memoLog' = <<MapF(fSel, Src)>>
    /\ win' = window_run(window_new(Src), Src)
    /\ keepRet' = keep_if(pSel, Src)
    /\ skipRet' = skip_if(pSel, Src)
    /\ UNCHANGED <<srcLog, fSel, pSel>>

\* source.set(v): the source notifies whether or not v is new, and the memo
\* and the effects run before set returns.
SetSource(v) ==
    /\ Len(srcLog) <= MaxSets
    /\ srcLog' = Append(srcLog, v)
    /\ IF built
       THEN /\ memo' = memo_run(fSel, memo, memoLog, v).value
            /\ memoLog' = memo_run(fSel, memo, memoLog, v).log
            /\ win' = window_run(win, v)
            /\ keepRet' = keep_run(pSel, keepRet, v)
            /\ skipRet' = skip_run(pSel, skipRet, v)
       ELSE UNCHANGED <<memo, memoLog, win, keepRet, skipRet>>
    /\ UNCHANGED <<fSel, pSel, built, builtAt>>

CombOnly == UNCHANGED <<bindVars, visVars, sweepVars, rowVars, modVars,
    bagVars, graphVars, prefixVars>>

CombNext ==
    \/ Build /\ CombOnly
    \/ \E v \in SrcVals : SetSource(v) /\ CombOnly

\* ---------------------------------------- claims about the derived signals

\* The values the source has held since the derived signals were created.
Seen == SubSeq(srcLog, builtAt, Len(srcLog))

\* s without the elements equal to their predecessor.
RECURSIVE Dedup(_)
Dedup(s) ==
    IF Len(s) <= 1 THEN s
    ELSE LET d == Dedup(SubSeq(s, 1, Len(s) - 1)) IN
         IF s[Len(s)] = d[Len(d)] THEN d ELSE Append(d, s[Len(s)])

\* C18: the subscribers of map_dedup(f) are notified only when f(new) is not
\* the derived value before it, and the derived value is f(source): for the
\* source values 1,1,2,2,2,3 and the identity they run at 1, 2 and 3.
C18_DedupNotifies ==
    built =>
        /\ memo = MapF(fSel, Src)
        /\ memoLog = Dedup([i \in 1..Len(Seen) |-> MapF(fSel, Seen[i])])

C18_Witness ==
    /\ built
    /\ fSel = "clone"
    /\ Seen = <<1, 1, 2, 2, 2, 3>>
    /\ memoLog = <<1, 2, 3>>

\* C19: map_window(f) calls f once with (None, current) when it is created
\* and once with (Some(the source's value before), new) at each notification
\* of the source, and the derived signal holds the latest result.
C19_WindowCalls ==
    built =>
        /\ win.calls = [i \in 1..Len(Seen) |->
                           IF i = 1 THEN <<NoOld, Seen[1]>>
                           ELSE <<SomeOld(Seen[i - 1]), Seen[i]>>]
        /\ win.ret = WindowF(win.calls[Len(win.calls)][1],
                             win.calls[Len(win.calls)][2])

\* The source values 1, 1, 3 (the spec's 5, 5, 7).
C19_Witness ==
    /\ built
    /\ Seen = <<1, 1, 3>>
    /\ win.calls = <<<<NoOld, 1>>, <<SomeOld(1), 1>>, <<SomeOld(1), 3>>>>
    /\ win.ret = 2

\* The last value of s the predicate p holds of, after its first; the first
\* when there is none.
RECURSIVE LastKept(_, _)
LastKept(p, s) ==
    IF Len(s) = 1 THEN s[1]
    ELSE IF s[Len(s)] \in p THEN s[Len(s)]
    ELSE LastKept(p, SubSeq(s, 1, Len(s) - 1))

\* C20: the output of keep_if(pred) starts as the source's value, whether or
\* not pred holds of it, and afterwards is the latest source value pred held
\* of (the initial one while there is none); skip_if(pred) is
\* keep_if(not pred).
C20_KeepIf ==
    built =>
        /\ keepRet = LastKept(pSel, Seen)
        /\ skipRet = LastKept(SrcVals \ pSel, Seen)

C20_Witness ==
    /\ built
    /\ Len(Seen) >= 4
    /\ ~Holds(pSel, Seen[1])
    /\ ~Holds(pSel, Src)
    /\ keepRet # Seen[1]
    /\ keepRet # Src
    /\ skipRet = Src

\* ----------------------------------------------------------------- Modify

Handles == 1..MaxHandles
CellVals == 0..MaxCell

\* A handle that was never taken.
NoHandle == [open |-> FALSE, value |-> 0, muts |-> 0, touched |-> FALSE]

OpenCount == Cardinality({h \in Handles : handles[h].open})

\* The other handles see that the cell was written.
Touch(hs, by) ==
    [h \in Handles |->
        IF h # by /\ hs[h].open THEN [hs[h] EXCEPT !.touched = TRUE]
        ELSE hs[h]]

\* A deref_mut that writes to the signal as well.
deref_mut_cell_WritesThrough(c, v) == v

\* Modify::deref_mut hands out self.value: what an assignment of v through
\* it leaves in the signal, which holds c.
deref_mut_cell(c, v) == c

\* A drop that gives way to a write made by another.
drop_commit_IfUntouched(c, hd) == IF hd.touched THEN c ELSE hd.value

\* Modify::drop: self.signal.set(self.value.take().unwrap()), the signal
\* holding c.
drop_commit(c, hd) == hd.value

ModInit ==
    /\ cell \in CellVals
    /\ cellWrites = 0
    /\ handles = [h \in Handles |-> NoHandle]
    /\ overwritten = 0
    /\ modOp = <<"none", 0>>

\* signal.modify(): the handle takes a clone of the value.
ModifyOpen(h) ==
    /\ ~handles[h].open
    /\ cellWrites + OpenCount < MaxCellWrites
    /\ handles' = [handles EXCEPT ![h] = [open |-> TRUE, value |-> cell,
                                          muts |-> 0, touched |-> FALSE]]
    /\ modOp' = <<"modify", h>>
    /\ UNCHANGED <<cell, cellWrites, overwritten>>

\* *handle = v, or any other mutation in place through deref_mut.
Mutate(h, v) ==
    /\ handles[h].open
    /\ cell' = deref_mut_cell(cell, v)
    /\ handles' = [handles EXCEPT ![h].value = v,
                                  ![h].muts = Min(MaxMuts, @ + 1)]
    /\ modOp' = <<"mutate", h>>
    /\ UNCHANGED <<cellWrites, overwritten>>

\* The handle goes out of scope: Modify::drop.
Release(h) ==
    /\ handles[h].open
    /\ cell' = drop_commit(cell, handles[h])
    /\ cellWrites' = cellWrites + 1
    /\ overwritten' = cell
    /\ handles' = Touch([handles EXCEPT ![h].open = FALSE], h)
    /\ modOp' = <<"release", h>>

\* Another writer sets the signal.
SetCell(v) ==
    /\ cellWrites + OpenCount < MaxCellWrites
    /\ cell' = v
    /\ cellWrites' = cellWrites + 1
    /\ handles' = Touch(handles, 0)
    /\ modOp' = <<"set", 0>>
    /\ UNCHANGED overwritten

ModOnly == UNCHANGED <<bindVars, visVars, sweepVars, rowVars, combVars,
    bagVars, graphVars, prefixVars>>

ModNext ==
    \/ \E h \in Handles : ModifyOpen(h) /\ ModOnly
    \/ \E h \in Handles, v \in CellVals : Mutate(h, v) /\ ModOnly
    \/ \E h \in Handles : Release(h) /\ ModOnly
    \/ \E v \in CellVals : SetCell(v) /\ ModOnly

\* ----------------------------------------------------- claims about Modify

\* What a step does to the cell, by the operation on handle h it is.
C21_HandleStep ==
    \A h \in Handles :
        /\ modOp' = <<"mutate", h>> /\ handles[h].open =>
               cell' = cell /\ cellWrites' = cellWrites
        /\ modOp' = <<"modify", h>> /\ ~handles[h].open =>
               cell' = cell /\ cellWrites' = cellWrites
        /\ handles[h].open /\ ~handles'[h].open =>
               cell' = handles[h].value /\ cellWrites' = cellWrites + 1

\* C21: a mutation through a handle, and modify() itself, leave the cell's
\* value as it is and notify nobody; the release of a handle writes the cell
\* once, with the handle's final value, and notifies once, also when no
\* mutation was made.
C21_OneWritePerHandle == [][C21_HandleStep]_vars

\* One handle released after several mutations, the other after none, with
\* no other writer.
C21_Witness ==
    /\ ~handles[1].open /\ handles[1].muts >= 2
    /\ ~handles[2].open /\ handles[2].muts = 0
    /\ modOp = <<"release", 2>>
    /\ cellWrites = 2

\* C29: the release of a handle writes its private copy whatever was written
\* to the cell while it was open, by another writer or by another handle on
\* the same cell: the cell then holds the copy of the handle released last.
C29_LastReleaseWins ==
    \A h \in Handles :
        modOp = <<"release", h>> /\ handles[h].touched =>
            cell = handles[h].value

\* A release that replaced a value written while the handle was open.
C29_Witness ==
    /\ modOp = <<"release", 1>>
    /\ handles[1].touched
    /\ overwritten # cell
    /\ ~handles[2].open /\ handles[2].muts > 0
    /\ overwritten = handles[2].value

\* -------------------------------------------------------------- SignalBag

Sources == 1..MaxSources
BagVals == 0..MaxBagVal

\* A push that puts the new getter before the others.
bag_push_Front(b, src) == <<src>> \o b

\* self.bag.borrow_mut().push(Box::new(move || signal.with(Clone::clone)))
bag_push(b, src) == Append(b, src)

\* SignalBag::map with f the identity: bag.borrow().iter().map(|f| f())
\* .collect(), each getter reading its source now.
bag_map(b, vals) == [i \in 1..Len(b) |-> vals[b[i]]]

\* An effect made with for_each: its closure runs at its creation too.
effect_run_ForEach(first) == 1

\* One run of the effect push makes with for_each_after_first: how often it
\* calls trigger.trigger_subscribers().
effect_run(first) == IF first THEN 0 ELSE 1

\* The effects of the bag that read src.
EffectsOn(effs, src) == {i \in 1..Len(effs) : effs[i] = src}

\* n computations of the aggregate.
Recomputed(n, b, vals) == [k \in 1..n |-> bag_map(b, vals)]

BagInit ==
    /\ srcVal \in [Sources -> BagVals]
    /\ bag = <<>>
    /\ pushed = <<>>
    /\ bagEffects = <<>>
    /\ opFires = 0
    /\ opSeen = <<>>
    /\ bagOp = <<"new", 0>>

\* bag.push(signal): the effect is created and runs once, the getter is
\* pushed, the trigger is fired.
Push(src) ==
    /\ Len(pushed) < MaxBag
    /\ pushed' = Append(pushed, src)
    /\ bagEffects' = Append(bagEffects, src)
    /\ bag' = bag_push(bag, src)
    /\ opFires' = effect_run(TRUE) + 1
    /\ opSeen' = Recomputed(effect_run(TRUE), bag, srcVal)
                     \o <<bag_map(bag', srcVal)>>
    /\ bagOp' = <<"push", src>>
    /\ UNCHANGED srcVal

\* signal.set(v) on a source: it notifies whether or not v is new, and every
\* effect that reads it runs.
SetMember(src, v) ==
    /\ srcVal' = [srcVal EXCEPT ![src] = v]
    /\ opFires' = Cardinality(EffectsOn(bagEffects, src)) * effect_run(FALSE)
    /\ opSeen' = Recomputed(opFires', bag, srcVal')
    /\ bagOp' = <<"set", src>>
    /\ UNCHANGED <<bag, pushed, bagEffects>>

BagOnly == UNCHANGED <<bindVars, visVars, sweepVars, rowVars, combVars,
    modVars, graphVars, prefixVars>>

BagNext ==
    \/ \E src \in Sources : Push(src) /\ BagOnly
    \/ \E src \in Sources, v \in BagVals : SetMember(src, v) /\ BagOnly

\* -------------------------------------------------- claims about SignalBag

\* C22: after any pushes and sets, bag.map(f) is f of the current values of
\* the pushed sources in the order of the pushes, one element per push;
\* nothing leaves the bag and the earlier members keep their order.
C22_Aggregate ==
    /\ Len(bag) = Len(pushed)
    /\ bag_map(bag, srcVal) = [i \in 1..Len(pushed) |-> srcVal[pushed[i]]]
    /\ opFires > 0 => opSeen[opFires] = bag_map(bag, srcVal)

\* A bag of three members, one source in it twice, after a set.
C22_Witness ==
    /\ pushed = <<1, 2, 1>>
    /\ bagOp = <<"set", 2>>
    /\ bag_map(bag, srcVal) = <<0, 1, 0>>

\* How often src was pushed.
Pushes(src) == Cardinality({i \in 1..Len(pushed) : pushed[i] = src})

\* C23 as amended: a push fires the trigger once, after the getter is in
\* the bag, and a set of a source fires it once for each time that source
\* was pushed; every firing recomputes the aggregate over the membership
\* as it is then.
C23_FiresPerPush ==
    /\ bagOp[1] = "push" =>
           opFires = 1 /\ opSeen = <<bag_map(bag, srcVal)>>
    /\ bagOp[1] = "set" =>
           /\ opFires = Pushes(bagOp[2])
           /\ \A k \in 1..opFires : opSeen[k] = bag_map(bag, srcVal)

\* C23: each push fires the bag's trigger exactly once, after the new getter
\* is in the bag, and each later set of a pushed source fires it once.
C23_FiresOnce ==
    /\ bagOp[1] = "push" =>
           opFires = 1 /\ opSeen = <<bag_map(bag, srcVal)>>
    /\ bagOp[1] = "set" /\ Pushes(bagOp[2]) > 0 => opFires = 1

\* A set of a source that was pushed twice.
C23_Witness ==
    /\ bagOp[1] = "set"
    /\ Pushes(bagOp[2]) = 2
    /\ opFires = 2

\* ------------------------------------------------------------ the graph

Ids == 1..MaxIds

\* The keys of Data.entries.
Keys(es) == {id \in Ids : es[id].present}

\* The snapshots without parents.
Unlinked ==
    {[id \in Ids |-> [present |-> id \in K, parents |-> <<>>]] :
        K \in SUBSET Ids}

\* The snapshots got from those of a set by one more parent in one entry.
Linked(S) ==
    {[es EXCEPT ![e[1]].parents = Append(@, e[2])] :
        es \in S, e \in Ids \X Ids}

\* The snapshots with at most n parent references, in entries that are
\* present.
RECURSIVE Snapshots(_)
Snapshots(n) ==
    IF n = 0 THEN Unlinked
    ELSE LET S == Snapshots(n - 1) IN
         S \cup {es \in Linked(S) : \A id \in Ids :
                     es[id].parents # <<>> => es[id].present}

\* A BTreeMap without keys.
EmptyMap == [q \in {} |-> {}]

\* An index built the wrong way round: children.entry(id).insert(p).
InsertChild_Swapped(ch, p, id) ==
    IF id \in DOMAIN ch THEN [ch EXCEPT ![id] = @ \cup {p}]
    ELSE [q \in DOMAIN ch \cup {id} |-> IF q = id THEN {p} ELSE ch[q]]

\* children.entry(*p).or_default().insert(*id)
InsertChild(ch, p, id) ==
    IF p \in DOMAIN ch THEN [ch EXCEPT ![p] = @ \cup {id}]
    ELSE [q \in DOMAIN ch \cup {p} |-> IF q = p THEN {id} ELSE ch[q]]

\* for p in &entry.parents, from the i-th parent on
RECURSIVE ForParents(_, _, _, _)
ForParents(ch, id, ps, i) ==
    IF i > Len(ps) THEN ch
    ELSE ForParents(InsertChild(ch, ps[i], id), id, ps, i + 1)

\* for (id, entry) in &entries, from key id on, in the order of the keys
RECURSIVE ForEntries(_, _, _)
ForEntries(ch, es, id) ==
    IF id > MaxIds THEN ch
    ELSE IF es[id].present
    THEN ForEntries(ForParents(ch, id, es[id].parents, 1), es, id + 1)
    ELSE ForEntries(ch, es, id + 1)

\* Data::from_raw: the children index of entries.
from_raw(es) == ForEntries(EmptyMap, es, 1)

Idling ==
    [phase |-> "idle", dir |-> "none", node |-> 0, done |-> {}, depth |-> 0,
     path |-> <<>>]

GraphInit ==
    /\ entries \in Snapshots(MaxSlots)
    /\ children = EmptyMap
    /\ loaded = FALSE
    /\ trav = Idling

\* Data::from_json / from_raw: the snapshot is complete.
FromRaw ==
    /\ ~loaded
    /\ loaded' = TRUE
    /\ children' = from_raw(entries)
    /\ UNCHANGED <<entries, trav>>

\* graph_upstream(id, data, BTreeSet::new()) or
\* graph_downstream(id, data, BTreeSet::new()) is called.
StartTraversal(dir, id) ==
    /\ loaded
    /\ trav.phase = "idle"
    /\ trav' = [phase |-> "run", dir |-> dir, node |-> id, done |-> {},
                depth |-> 1, path |-> <<>>]
    /\ UNCHANGED <<entries, children, loaded>>

\* A call that does not note its id.
insert_done_Forgets(done, id) == done

\* done.insert(id)
insert_done(done, id) == done \cup {id}

\* A call ends the chain with the marker it renders.
EndChain(phase, done, path) ==
    trav' = [trav EXCEPT !.phase = phase, !.done = done, !.path = path]

\* The call renders its row and calls itself for the active id next, which
\* is any id of the row.
Descend(row, done, path) ==
    \E next \in row :
        trav' = [trav EXCEPT !.node = next, !.done = done, !.path = path,
                             !.depth = @ + 1]

\* The ids whose cards a call of graph_downstream renders.
ChildIds(ch, id) == IF id \in DOMAIN ch THEN ch[id] ELSE {}

\* One call of graph_upstream(child, data, done): "Missing entry",
\* "Repeated", no parents, or the call for the active parent.
UpstreamCall ==
    /\ trav.phase = "run"
    /\ trav.dir = "up"
    /\ trav.depth <= MaxIds + 1
    /\ LET id == trav.node
           done == insert_done(trav.done, id)
           path == Append(trav.path, id)
       IN IF ~(id \in Ids /\ entries[id].present)
          THEN EndChain("Missing entry", trav.done, trav.path)
          ELSE IF id \in trav.done
          THEN EndChain("Repeated", trav.done, trav.path)
          ELSE IF entries[id].parents = <<>>
          THEN EndChain("leaf", done, path)
          ELSE Descend(Elems(entries[id].parents), done, path)
    /\ UNCHANGED <<entries, children, loaded>>

\* One call of graph_downstream(parent, data, done): "Repeated",
\* "Missing entry", no children, or the call for the active child.
DownstreamCall ==
    /\ trav.phase = "run"
    /\ trav.dir = "down"
    /\ trav.depth <= MaxIds + 1
    /\ LET id == trav.node
           done == insert_done(trav.done, id)
           path == Append(trav.path, id)
       IN IF id \in trav.done
          THEN EndChain("Repeated", trav.done, trav.path)
          ELSE IF ~(id \in Ids /\ entries[id].present)
          THEN EndChain("Missing entry", done, trav.path)
          ELSE IF ChildIds(children, id) = {}
          THEN EndChain("leaf", done, path)
          ELSE Descend(ChildIds(children, id), done, path)
    /\ UNCHANGED <<entries, children, loaded>>

GraphOnly == UNCHANGED <<bindVars, visVars, sweepVars, rowVars, combVars,
    modVars, bagVars, prefixVars>>

GraphNext ==
    \/ FromRaw /\ GraphOnly
    \/ \E dir \in {"up", "down"}, id \in Ids :
           StartTraversal(dir, id) /\ GraphOnly
    \/ UpstreamCall /\ GraphOnly
    \/ DownstreamCall /\ GraphOnly

\* -------------------------------------------------- claims about the graph

\* C24: in a snapshot built by Data::from_raw, c is in children[p] exactly
\* when c is a key of entries and p occurs in entries[c].parents, whether or
\* not p is a key of entries; children has no other keys and no empty sets.
C24_ChildrenInverse ==
    loaded =>
        /\ DOMAIN children \subseteq Ids
        /\ \A p \in DOMAIN children : children[p] # {}
        /\ \A c \in Ids, p \in Ids :
               (p \in DOMAIN children /\ c \in children[p])
                   <=> (entries[c].present /\ p \in Elems(entries[c].parents))

\* Two entries under a parent that is no key, one naming it twice.
C24_Witness ==
    /\ loaded
    /\ \E p \in Ids :
          /\ ~entries[p].present
          /\ p \in DOMAIN children
          /\ Cardinality(children[p]) = 2
          /\ \E c \in children[p] : Len(entries[c].parents) = 2

Ended == {"Repeated", "Missing entry", "leaf"}

\* What holds of a chain at every call.
C25_Chain ==
    /\ trav.depth <= Cardinality(Keys(entries)) + 1
    /\ \A i, j \in 1..Len(trav.path) : trav.path[i] = trav.path[j] => i = j
    /\ trav.phase = "Repeated" => trav.node \in Elems(trav.path)
    /\ trav.phase = "Missing entry" => trav.node \notin Keys(entries)
    /\ trav.phase = "leaf" =>
           /\ trav.node \in Keys(entries)
           /\ trav.node \notin Elems(SubSeq(trav.path, 1, Len(trav.path) - 1))

\* C25: for every snapshot (cycles, self-loops and missing ids included) and
\* every choice of the active id at each level, the upstream and downstream
\* traversals from any node end; no id is expanded twice along a chain, an
\* id met again ends it with "Repeated" and a missing id with "Missing
\* entry", and the depth is at most the number of entries plus one.
C25_Terminates ==
    /\ []C25_Chain
    /\ (trav.phase = "run") ~> (trav.phase \in Ended)

\* The cycle 1 -> 2 -> 3 -> 1 of parents, walked upstream from 1 until 1 is
\* met again.
C25_Witness ==
    /\ entries[1].parents = <<2>>
    /\ entries[2].parents = <<3>>
    /\ entries[3].parents = <<1>>
    /\ trav.dir = "up"
    /\ trav.phase = "Repeated"
    /\ trav.path = <<1, 2, 3>>
    /\ trav.depth = 4

\* ------------------------------------------------------------ pick_prefix

NUMBER_OF_PREFIXES == 24

\* SI_PREFIXES, by exp
SI_PREFIXES ==
    <<30, 27, 24, 21, 18, 15, 12, 9, 6, 3, 2, 1,
      -1, -2, -3, -6, -9, -12, -15, -18, -21, -24, -27, -30>>

\* a % b of Rust's integers: the remainder has the sign of a.
Rem(a, b) == IF a >= 0 THEN a % b ELSE -((-a) % b)

NoPrefix == [some |-> FALSE, exp |-> 0]
Prefix(exp) == [some |-> TRUE, exp |-> exp]
Pending == [some |-> FALSE, exp |-> 1]

\* The floors number.abs().log10() can have: the floor of the logarithm,
\* and for a number just below a power of ten also the exponent of that
\* power, to which the logarithm rounds (999.9999999999999_f64.log10() is
\* 3.0 when rounded to nearest; the precision of log10 is not specified).
Log10Floors(num) ==
    IF num.near THEN {num.mag, num.mag + 1} ELSE {num.mag}

\* pick_prefix(number), with oom the floor of order_of_magnitude.
pick_prefix(num, oom) ==
    IF num.zero THEN NoPrefix
    ELSE IF 0 <= oom /\ oom < 3 THEN NoPrefix
    ELSE LET fit == {i \in 1..NUMBER_OF_PREFIXES :
                        Rem(SI_PREFIXES[i], 3) = 0 /\ SI_PREFIXES[i] <= oom}
         IN IF fit = {} THEN Prefix(SI_PREFIXES[NUMBER_OF_PREFIXES])
            ELSE Prefix(SI_PREFIXES[
                     CHOOSE i \in fit :
                         \A j \in fit : SI_PREFIXES[j] <= SI_PREFIXES[i]])

\* The finite numbers other than 0, by sign and order of magnitude; those
\* just below a power of ten 10^k are taken for |k| >= 2, where the f64s
\* around k are further apart than log10 of two neighbouring numbers.
Numbers ==
    {[zero |-> FALSE, neg |-> s, mag |-> m, near |-> FALSE] :
        s \in BOOLEAN, m \in (-MaxMag)..MaxMag}
    \cup {[zero |-> FALSE, neg |-> s, mag |-> m, near |-> TRUE] :
        s \in BOOLEAN,
        m \in {k \in (-MaxMag)..MaxMag : k + 1 >= 2 \/ k + 1 <= -2}}

PositiveZero == [zero |-> TRUE, neg |-> FALSE, mag |-> 0, near |-> FALSE]
NegativeZero == [zero |-> TRUE, neg |-> TRUE, mag |-> 0, near |-> FALSE]

PrefixInit ==
    /\ pfNum \in Numbers \cup {PositiveZero, NegativeZero}
    /\ pfRes = Pending

\* pick_prefix(number) is called.
PickPrefix ==
    /\ pfRes = Pending
    /\ \E oom \in Log10Floors(pfNum) : pfRes' = pick_prefix(pfNum, oom)
    /\ UNCHANGED pfNum

PrefixOnly == UNCHANGED <<bindVars, visVars, sweepVars, rowVars, combVars,
    modVars, bagVars, graphVars>>

PrefixNext ==
    \/ PickPrefix /\ PrefixOnly

\* ------------------------------------------------ claims about pick_prefix

\* The multiple of 3 at or below m, kept within -30..30.
Thousands(m) == Max(-30, Min(30, 3 * (m \div 3)))

\* C30: pick_prefix(n) is None when n == 0 or 1 <= |n| < 1000; otherwise it
\* is the prefix with the largest exponent that is a multiple of 3 and at
\* most log10(|n|), 30 for huge values and -30 when no prefix is small
\* enough; n and -n give the same.
C30_PrefixTable ==
    pfRes # Pending =>
        IF pfNum.zero \/ (0 <= pfNum.mag /\ pfNum.mag < 3)
        THEN pfRes = NoPrefix
        ELSE pfRes = Prefix(Thousands(pfNum.mag))

\* --------------------------------------------------------- specifications

BindIdle ==
    /\ conv = 1 /\ parent = 0 /\ child = NoChild /\ lock = Idle
    /\ firstP = TRUE /\ firstC = TRUE /\ subP = FALSE /\ subC = FALSE
    /\ bindPc = "unbound" /\ stack = <<>> /\ panicked = "none"
    /\ ext = "none" /\ extVal = 0 /\ childWrites = 0 /\ parentWrites = 0

VisIdle ==
    /\ vStart = Zero /\ vEnd = Zero /\ vWindow = Zero /\ vis = NotComputed

SweepIdle ==
    /\ swWindow = 100 /\ swWidth = 50 /\ swStart = SweepRange.from
    /\ swTrace = <<>>

RowIdle ==
    /\ rowDir = "down" /\ cards = <<1>> /\ viewW = 1 /\ scrollLeft = 0
    /\ current = 1 /\ frame = "None" /\ rafQueue = 0 /\ scrollsSince = 0
    /\ requestsSince = 0 /\ evalsForBurst = 0 /\ rowPanic = FALSE
    /\ above = 0 /\ spacer = 0 /\ scrollY = 0
    /\ lastEval = NoEval /\ lastRestore = NoRestore

ModIdle ==
    /\ cell = 0 /\ cellWrites = 0 /\ handles = [h \in Handles |-> NoHandle]
    /\ overwritten = 0 /\ modOp = <<"none", 0>>

BagIdle ==
    /\ srcVal = [src \in Sources |-> 0] /\ bag = <<>> /\ pushed = <<>>
    /\ bagEffects = <<>> /\ opFires = 0 /\ opSeen = <<>>
    /\ bagOp = <<"new", 0>>

GraphIdle ==
    /\ entries = [id \in Ids |-> [present |-> FALSE, parents |-> <<>>]]
    /\ children = EmptyMap /\ loaded = FALSE /\ trav = Idling

PrefixIdle == pfNum = PositiveZero /\ pfRes = Pending

CombIdle ==
    /\ srcLog = <<1>> /\ fSel = "clone" /\ pSel = {} /\ built = FALSE
    /\ builtAt = 0 /\ memo = 0 /\ memoLog = <<>> /\ win = NoWindow
    /\ keepRet = 0 /\ skipRet = 0

BindSpecInit == BindInit /\ VisIdle /\ SweepIdle /\ RowIdle /\ CombIdle /\
    ModIdle /\ BagIdle /\ GraphIdle /\ PrefixIdle
VisSpecInit == VisInit /\ BindIdle /\ SweepIdle /\ RowIdle /\ CombIdle /\
    ModIdle /\ BagIdle /\ GraphIdle /\ PrefixIdle
SweepSpecInit == SweepInit /\ BindIdle /\ VisIdle /\ RowIdle /\ CombIdle /\
    ModIdle /\ BagIdle /\ GraphIdle /\ PrefixIdle
RowSpecInit == RowInit /\ BindIdle /\ VisIdle /\ SweepIdle /\ CombIdle /\
    ModIdle /\ BagIdle /\ GraphIdle /\ PrefixIdle
CombSpecInit == CombInit /\ BindIdle /\ VisIdle /\ SweepIdle /\ RowIdle /\
    ModIdle /\ BagIdle /\ GraphIdle /\ PrefixIdle
ModSpecInit == ModInit /\ BindIdle /\ VisIdle /\ SweepIdle /\ RowIdle /\
    CombIdle /\ BagIdle /\ GraphIdle /\ PrefixIdle
BagSpecInit == BagInit /\ BindIdle /\ VisIdle /\ SweepIdle /\ RowIdle /\
    CombIdle /\ ModIdle /\ GraphIdle /\ PrefixIdle
GraphSpecInit == GraphInit /\ BindIdle /\ VisIdle /\ SweepIdle /\ RowIdle /\
    CombIdle /\ ModIdle /\ BagIdle /\ PrefixIdle
PrefixSpecInit == PrefixInit /\ BindIdle /\ VisIdle /\ SweepIdle /\
    RowIdle /\ CombIdle /\ ModIdle /\ BagIdle /\ GraphIdle

\* double_bind under the synchronous scheduler
BindSpec == BindSpecInit /\ [][BindNext]_vars

\* double_bind; an effect run that has started runs to its end
BindFairSpec == BindSpec /\ WF_vars(EffectStep /\ BindOnly)

\* Visibility::new over every interval and window of the grid
VisSpec == VisSpecInit /\ [][VisNext]_vars

\* the sweeps
SweepSpec == SweepSpecInit /\ [][SweepNext]_vars

\* a row of cards: scroll events, animation frames, the scan, the restoration
RowSpec == RowSpecInit /\ [][RowNext]_vars

\* the same; a frame that was requested fires
RowFairSpec ==
    RowSpec /\ WF_vars(DownstreamFrame /\ RowOnly)
            /\ WF_vars(UpstreamFrame /\ RowOnly)

\* a source signal with map_dedup, map_window, keep_if and skip_if on it
CombSpec == CombSpecInit /\ [][CombNext]_vars

\* a cell, its Modify handles and another writer
ModSpec == ModSpecInit /\ [][ModNext]_vars

\* a SignalBag, the sources pushed to it and a subscriber of its aggregate
BagSpec == BagSpecInit /\ [][BagNext]_vars

\* a snapshot, its children index and one chain of a traversal
GraphSpec == GraphSpecInit /\ [][GraphNext]_vars

\* the same; a call that was made runs
GraphFairSpec ==
    GraphSpec /\ WF_vars(UpstreamCall /\ GraphOnly)
              /\ WF_vars(DownstreamCall /\ GraphOnly)

\* pick_prefix over the numbers, by sign and order of magnitude
PrefixSpec == PrefixSpecInit /\ [][PrefixNext]_vars

====
